---- MODULE Spec2Model ----
(***************************************************************************)
(* A model of ReSub's StoreBase (src/src/StoreBase.ts): the per-store      *)
(* subscription registries, the process-wide pending-callback table, the  *)
(* trigger fan-out / merge logic, the throttle timers, the trigger-block  *)
(* stack and the re-entrant resolver.                                      *)
(*                                                                         *)
(* JavaScript is single-threaded: a public call runs to completion, but a *)
(* subscriber callback invoked by the resolver may call back into the     *)
(* stores.  The resolver pass is therefore modelled step by step (one     *)
(* step per callback invocation) and every public operation exists as a   *)
(* top-level action (pc = "idle") and as a nested action (issued by the   *)
(* callback that is running).                                             *)
(***************************************************************************)
EXTENDS Integers, Sequences, FiniteSets, TLC

\* ------------------------------------------------------------------------
\* Universe and bounds
\* ------------------------------------------------------------------------

\* static readonly Key_All = '%!$all'
Key_All == "%!$all"

\* Subscriber callbacks (function identities).
Callbacks == {"c1", "c2"}

\* Application keys.
Keys == {"a", "b"}

SubKeys == Keys \cup {Key_All}

\* Store instances.  P: new Store(); Q: new Store(ThrottleMs);
\* B: new Store(undefined, true).
Stores == {"P", "Q", "B"}

\* The coalescing delay given to the constructor of store Q, and the value
\* Options.defaultThrottleMs takes when a default delay is configured.
ThrottleMs == 2

\* Bounds of the exploration.
MaxTime == 3
MaxToken == 2
MaxNested == 1
MaxBlock == 2
MaxHoldBlock == 1
MaxMerge == 2
MaxAuto == 1
MaxTrack == 2
MaxOverPop == 1

NoCallback == "none"

\* ------------------------------------------------------------------------
\* Constructor arguments (StoreBase.ts:81)
\* ------------------------------------------------------------------------

\* this._throttleMs !== undefined
HasThrottleMs(s) == s = "Q"

\* this._throttleMs (only meaningful when HasThrottleMs(s))
ThrottleMsOf(s) == ThrottleMs

\* this._bypassTriggerBlocks
BypassTriggerBlocks(s) == s = "B"

\* ------------------------------------------------------------------------
\* Sequence helpers (lodash and Array primitives used by StoreBase)
\* ------------------------------------------------------------------------

Min(a, b) == IF a <= b THEN a ELSE b

Range(seq) == {seq[i] : i \in 1..Len(seq)}

\* lodash indexOf: the first index holding x, 0 when there is none.
IndexOf(seq, x) ==
    IF \E i \in 1..Len(seq) : seq[i] = x
    THEN CHOOSE i \in 1..Len(seq) : seq[i] = x /\ \A j \in 1..(i - 1) : seq[j] # x
    ELSE 0

\* Array.prototype.splice(index, 1)
Splice(seq, i) == [j \in 1..(Len(seq) - 1) |-> IF j < i THEN seq[j] ELSE seq[j + 1]]

\* lodash pull: removes every occurrence of x.
Pull(seq, x) == SelectSeq(seq, LAMBDA e : e # x)

\* Variant: the key list is delivered as it was collected
Uniq_Keep(seq) == seq

\* lodash uniq: keeps the first occurrence of every element, in order.
RECURSIVE Uniq(_)
Uniq(seq) ==
    IF seq = <<>> THEN <<>>
    ELSE LET rest == Uniq(SubSeq(seq, 1, Len(seq) - 1))
             last == seq[Len(seq)]
         IN IF last \in Range(rest) THEN rest ELSE Append(rest, last)

\* lodash flatten (one level).
RECURSIVE Flatten(_)
Flatten(seqs) ==
    IF seqs = <<>> THEN <<>> ELSE Head(seqs) \o Flatten(Tail(seqs))

\* ------------------------------------------------------------------------
\* Dictionary<T>: a JavaScript object used as a map.  Modelled as the
\* sequence of its [key, val] entries in insertion order, which is the
\* order lodash values() and Object.keys() enumerate string keys in.
\* ------------------------------------------------------------------------

DictHas(d, k) == \E i \in 1..Len(d) : d[i].key = k

DictIdx(d, k) == CHOOSE i \in 1..Len(d) : d[i].key = k

\* d[k], for a key that is present
DictGet(d, k) == d[DictIdx(d, k)].val

\* forEach(d[k], ...) iterates nothing when d[k] is undefined
DictGetOrEmpty(d, k) == IF DictHas(d, k) THEN DictGet(d, k) ELSE <<>>

\* d[k] = v
DictSet(d, k, v) ==
    IF DictHas(d, k)
    THEN [d EXCEPT ![DictIdx(d, k)] = [key |-> k, val |-> v]]
    ELSE Append(d, [key |-> k, val |-> v])

\* delete d[k]
DictDelete(d, k) == SelectSeq(d, LAMBDA e : e.key # k)

\* lodash values(d)
Values(d) == [i \in 1..Len(d) |-> d[i].val]

\* Object.keys(d)
ObjectKeys(d) == [i \in 1..Len(d) |-> d[i].key]

\* ------------------------------------------------------------------------
\* CallbackMap: Map<callback, CallbackMetadata>, in insertion order.
\* An entry is [callback, all, keys, throttledUntil, bypassBlock] where
\* all = TRUE stands for keys === null and throttledUntil = 0 stands for
\* undefined (the code tests throttledUntil by truthiness only).
\* ------------------------------------------------------------------------

MapHas(m, cb) == \E i \in 1..Len(m) : m[i].callback = cb

MapIdx(m, cb) == CHOOSE i \in 1..Len(m) : m[i].callback = cb

MapGet(m, cb) == m[MapIdx(m, cb)]

\* Map.set keeps the position of a key that is already present.
MapSet(m, meta) ==
    IF MapHas(m, meta.callback)
    THEN [m EXCEPT ![MapIdx(m, meta.callback)] = meta]
    ELSE Append(m, meta)

MapDelete(m, cb) == SelectSeq(m, LAMBDA e : e.callback # cb)

\* ------------------------------------------------------------------------
\* Pending-table merge (StoreBase.ts:150-199)
\* ------------------------------------------------------------------------

\* Variant: a merge always sets the bypass flag
_updateExistingMeta_Bypass(meta, throttledUntil, bypassBlock) ==
    LET t1 == IF throttledUntil # 0 /\ meta.throttledUntil # 0
              THEN Min(meta.throttledUntil, throttledUntil)
              ELSE meta.throttledUntil
        t2 == IF throttledUntil = 0 THEN 0 ELSE t1
    IN [meta EXCEPT !.throttledUntil = t2, !.bypassBlock = TRUE]

\* _updateExistingMeta(meta, throttledUntil, bypassBlock), for a defined meta
_updateExistingMeta(meta, throttledUntil, bypassBlock) ==
    LET t1 == IF throttledUntil # 0 /\ meta.throttledUntil # 0
              THEN Min(meta.throttledUntil, throttledUntil)
              ELSE meta.throttledUntil
        t2 == IF throttledUntil = 0 THEN 0 ELSE t1
        b2 == IF bypassBlock THEN TRUE ELSE meta.bypassBlock
    IN [meta EXCEPT !.throttledUntil = t2, !.bypassBlock = b2]

\* _setupAllKeySubscription(callback, throttledUntil, bypassBlock)
_setupAllKeySubscription(pend, callback, throttledUntil, bypassBlock) ==
    LET has == MapHas(pend, callback)
        t == IF has /\ throttledUntil # 0 /\ MapGet(pend, callback).throttledUntil # 0
             THEN Min(throttledUntil, MapGet(pend, callback).throttledUntil)
             ELSE throttledUntil
        b == IF has /\ MapGet(pend, callback).bypassBlock THEN TRUE ELSE bypassBlock
    IN MapSet(pend, [callback |-> callback, all |-> TRUE, keys |-> <<>>,
                     throttledUntil |-> t, bypassBlock |-> b])

\* Variant: a key list replaces the all-keys marker of the existing entry
_setupSpecificKeySubscription_Narrow(pend, keys, callback, throttledUntil, bypassBlock) ==
    IF ~MapHas(pend, callback)
    THEN Append(pend, [callback |-> callback, all |-> FALSE, keys |-> keys,
                       throttledUntil |-> throttledUntil, bypassBlock |-> bypassBlock])
    ELSE LET meta == _updateExistingMeta(MapGet(pend, callback), throttledUntil, bypassBlock)
         IN MapSet(pend, [meta EXCEPT !.all = FALSE, !.keys = meta.keys \o keys])

\* _setupSpecificKeySubscription(keys, callback, throttledUntil, bypassBlock)
_setupSpecificKeySubscription(pend, keys, callback, throttledUntil, bypassBlock) ==
    IF ~MapHas(pend, callback)
    THEN Append(pend, [callback |-> callback, all |-> FALSE, keys |-> keys,
                       throttledUntil |-> throttledUntil, bypassBlock |-> bypassBlock])
    ELSE LET meta == _updateExistingMeta(MapGet(pend, callback), throttledUntil, bypassBlock)
         IN IF meta.all
            THEN MapSet(pend, meta)
            ELSE MapSet(pend, [meta EXCEPT !.keys = meta.keys \o keys])

\* ------------------------------------------------------------------------
\* Trigger fan-out (StoreBase.ts:112-143)
\* ------------------------------------------------------------------------

\* forEach(subs, sub => this._setupAllKeySubscription(sub, ...))
RECURSIVE ForEachAllKey(_, _, _, _)
ForEachAllKey(cbs, pend, throttledUntil, bypassBlock) ==
    IF cbs = <<>> THEN pend
    ELSE ForEachAllKey(Tail(cbs),
                       _setupAllKeySubscription(pend, Head(cbs), throttledUntil, bypassBlock),
                       throttledUntil, bypassBlock)

\* forEach(subs, callback => this._setupSpecificKeySubscription(keys, callback, ...))
RECURSIVE ForEachSpecificKey(_, _, _, _, _)
ForEachSpecificKey(cbs, keys, pend, throttledUntil, bypassBlock) ==
    IF cbs = <<>> THEN pend
    ELSE ForEachSpecificKey(Tail(cbs), keys,
                            _setupSpecificKeySubscription(pend, keys, Head(cbs),
                                                          throttledUntil, bypassBlock),
                            throttledUntil, bypassBlock)

\* sub => sub.callback, over a list of auto-subscription records
CallbacksOf(recs) == [i \in 1..Len(recs) |-> recs[i].callback]

\* forEach(keys, key => { explicit subscribers of key; auto subscribers of key })
RECURSIVE ForEachKey(_, _, _, _, _, _)
ForEachKey(keys, subs, autos, pend, throttledUntil, bypassBlock) ==
    IF keys = <<>> THEN pend
    ELSE LET key == Head(keys)
             p1 == ForEachSpecificKey(DictGetOrEmpty(subs, key), <<key>>, pend,
                                      throttledUntil, bypassBlock)
             p2 == ForEachSpecificKey(CallbacksOf(DictGetOrEmpty(autos, key)), <<key>>, p1,
                                      throttledUntil, bypassBlock)
         IN ForEachKey(Tail(keys), subs, autos, p2, throttledUntil, bypassBlock)

\* The pending table after the fan-out of trigger(arg) on a store whose
\* registries are subs and autos.  arg.all stands for "no key argument".
TriggerFanOut(arg, subs, autos, pend, throttledUntil, bypassBlock) ==
    IF arg.all
    THEN LET p1 == ForEachAllKey(Flatten(Values(subs)), pend, throttledUntil, bypassBlock)
         IN ForEachAllKey(CallbacksOf(Flatten(Values(autos))), p1, throttledUntil, bypassBlock)
    ELSE LET p1 == ForEachKey(arg.keys, subs, autos, pend, throttledUntil, bypassBlock)
             p2 == ForEachSpecificKey(DictGetOrEmpty(subs, Key_All), arg.keys, p1,
                                      throttledUntil, bypassBlock)
         IN ForEachSpecificKey(CallbacksOf(DictGetOrEmpty(autos, Key_All)), arg.keys, p2,
                               throttledUntil, bypassBlock)

\* ------------------------------------------------------------------------
\* Resolver: the capture loop of _resolveCallbacks (StoreBase.ts:222-237)
\* ------------------------------------------------------------------------

\* Variant: the block counter is not consulted
Deliverable_NoBlock(meta, blockCount, bypassThrottle, currentTime) ==
    ~(meta.throttledUntil # 0 /\ meta.throttledUntil > currentTime /\ ~bypassThrottle)

\* Variant: the bypass flag of the entry is not consulted
Deliverable_NoBypass(meta, blockCount, bypassThrottle, currentTime) ==
    /\ ~(blockCount > 0)
    /\ ~(meta.throttledUntil # 0 /\ meta.throttledUntil > currentTime /\ ~bypassThrottle)

\* An entry passes the block check and the throttle check.
Deliverable(meta, blockCount, bypassThrottle, currentTime) ==
    /\ ~(blockCount > 0 /\ ~meta.bypassBlock)
    /\ ~(meta.throttledUntil # 0 /\ meta.throttledUntil > currentTime /\ ~bypassThrottle)

\* callbacks.push([callback, uniquedKeys || undefined])
Captured(pend, blockCount, bypassThrottle, currentTime) ==
    LET ready == SelectSeq(pend,
                           LAMBDA m : Deliverable(m, blockCount, bypassThrottle, currentTime))
    IN [i \in 1..Len(ready) |->
          [callback |-> ready[i].callback, all |-> ready[i].all,
           keys |-> IF ready[i].all THEN <<>> ELSE Uniq(ready[i].keys)]]

\* Variant: captured entries stay in the table
Remaining_KeepAll(pend, blockCount, bypassThrottle, currentTime) == pend

\* map.delete(callback) for every captured entry
Remaining(pend, blockCount, bypassThrottle, currentTime) ==
    SelectSeq(pend, LAMBDA m : ~Deliverable(m, blockCount, bypassThrottle, currentTime))

\* ------------------------------------------------------------------------
\* State
\* ------------------------------------------------------------------------

VARIABLES
    \* per store (instance fields)
    _subscriptions,      \* [Stores -> Dictionary<callback[]>]
    _autoSubscriptions,  \* [Stores -> Dictionary<AutoSubscription[]>]
    _subTokenNum,        \* [Stores -> Nat]
    _subsByNum,          \* [Stores -> set of [token, key, callback]]
    _throttleData,       \* [Stores -> [set, timerAt, callbackTime]]
    \* process-wide (static fields)
    _triggerPending,
    _isTriggering,
    _triggerBlockCount,
    _bypassThrottle,
    _pendingCallbacks,
    \* environment
    defaultThrottleMs,   \* Options.defaultThrottleMs
    now,                 \* Date.now()
    \* position of the (single) thread of control
    pc,                  \* "idle" | "resolving" | "done"
    callbacks,           \* captured entries of the running pass not yet invoked
    running,             \* the callback being invoked, or NoCallback
    \* history (observation only; never read by the modelled code)
    op,                  \* the top-level call in progress / just returned
    log,                 \* invocations made so far by that call
    nested,              \* number of calls issued by callbacks during it
    hist,                \* per callback: triggers that reached it, undelivered
    since,               \* per callback: when the window of the first of them opened
    window,              \* per store: when its open coalescing window opened (0: none);
                         \* it closes when a timer of the store expires at its end
    due,                 \* per callback: the triggers its last capture answers
    cancelled,           \* per callback: "no" | "top" | "again" | "mid"
    flushed,             \* callbacks flushed by setThrottleStatus(false)
    requests,            \* resolve requests recorded during the running pass
    passNo,              \* resolver passes started by the top-level call
    trig,                \* keys triggered (no delay, no block) since the last capture
    batch,               \* keys the running pass has to deliver
    phase,               \* "collected" | "invoked" | "other"
    issued,              \* per store: the tokens subscribe has returned so far and
                         \* those a successful unsubscribe has retired
    outcome              \* what the step just taken reported to its surroundings:
                         \* the tracking hooks it called and the failure it ended with

regVars == <<_subscriptions, _autoSubscriptions, _subTokenNum, _subsByNum>>

staticVars == <<_triggerPending, _isTriggering, _triggerBlockCount, _bypassThrottle,
                _pendingCallbacks>>

ctlVars == <<pc, callbacks, running>>

histVars == <<op, log, nested, hist, since, window, due, cancelled, flushed, requests,
              passNo, trig, batch, phase, issued, outcome>>

vars == <<regVars, _throttleData, staticVars, defaultThrottleMs, now, ctlVars, histVars>>

NoThrottleData == [set |-> FALSE, timerAt |-> 0, callbackTime |-> 0]

NoOp == [name |-> "none", store |-> "-", who |-> {}, block |-> 0]

NoDue == [trigs |-> <<>>, since |-> 0]

NoOutcome == [hooks |-> <<>>, error |-> "none"]

\* The step called no tracking hook and failed no assertion.
Quiet == outcome' = NoOutcome

\* The state after module load and construction of the stores, with
\* Options.defaultThrottleMs = d.
InitWith(d) ==
    /\ _subscriptions = [s \in Stores |-> <<>>]
    /\ _autoSubscriptions = [s \in Stores |-> <<>>]
    /\ _subTokenNum = [s \in Stores |-> 1]
    /\ _subsByNum = [s \in Stores |-> {}]
    /\ _throttleData = [s \in Stores |-> NoThrottleData]
    /\ _triggerPending = FALSE
    /\ _isTriggering = FALSE
    /\ _triggerBlockCount = 0
    /\ _bypassThrottle = FALSE
    /\ _pendingCallbacks = <<>>
    /\ defaultThrottleMs = d
    /\ now = 1
    /\ pc = "idle"
    /\ callbacks = <<>>
    /\ running = NoCallback
    /\ op = NoOp
    /\ log = <<>>
    /\ nested = 0
    /\ hist = [c \in Callbacks |-> <<>>]
    /\ since = [c \in Callbacks |-> 0]
    /\ window = [s \in Stores |-> 0]
    /\ due = [c \in Callbacks |-> NoDue]
    /\ cancelled = [c \in Callbacks |-> "no"]
    /\ flushed = {}
    /\ requests = 0
    /\ passNo = 0
    /\ trig = {}
    /\ batch = {}
    /\ phase = "other"
    /\ issued = [s \in Stores |-> [returned |-> {}, retired |-> {}]]
    /\ outcome = NoOutcome

\* ------------------------------------------------------------------------
\* Observation helpers
\* ------------------------------------------------------------------------

\* cb holds an explicit or an auto subscription under key in these registries
SubscribedUnder(subs, autos, cb, key) ==
    \/ cb \in Range(DictGetOrEmpty(subs, key))
    \/ \E r \in Range(DictGetOrEmpty(autos, key)) : r.callback = cb

\* cb holds some subscription on some store
HasAnySubscription(subsAll, autosAll, cb) ==
    \E s \in Stores : \E k \in SubKeys : SubscribedUnder(subsAll[s], autosAll[s], cb, k)

\* What trigger(arg) means for cb on a store with these registries: whether
\* it reaches cb, the keys it reports to cb and, when cb is a subscriber of
\* the all-keys sentinel, the key list as it was supplied.
Affected(arg, subs, autos, cb) ==
    IF arg.all
    THEN [hit |-> \E k \in SubKeys : SubscribedUnder(subs, autos, cb, k), keys |-> {},
          list |-> <<>>]
    ELSE LET viaAll == SubscribedUnder(subs, autos, cb, Key_All)
             ks == IF viaAll
                   THEN Range(arg.keys)
                   ELSE {k \in Range(arg.keys) : SubscribedUnder(subs, autos, cb, k)}
         IN [hit |-> ks # {}, keys |-> ks, list |-> IF viaAll THEN arg.keys ELSE <<>>]

\* A recorded trigger is still backed by a subscription of cb.
Backed(e, subsAll, autosAll, cb) ==
    IF e.all
    THEN \E k \in SubKeys : SubscribedUnder(subsAll[e.store], autosAll[e.store], cb, k)
    ELSE \E k \in e.keys \cup {Key_All} :
            SubscribedUnder(subsAll[e.store], autosAll[e.store], cb, k)

Queued(cb) == \E i \in 1..Len(callbacks) : callbacks[i].callback = cb

Logged(cb) == \E i \in 1..Len(log) : log[i].callback = cb

TimesLogged(cb) == Cardinality({i \in 1..Len(log) : log[i].callback = cb})

\* History bookkeeping when a subscription of cb is removed: "top" when a
\* top-level call removes the last subscription of a callback that is owed a
\* delivery, "mid" when a callback of the running pass removes the last
\* subscription of a callback still waiting for its turn in that pass.
CancelNote(n, subsAll, autosAll, cb) ==
    IF HasAnySubscription(subsAll, autosAll, cb) THEN cancelled[cb]
    ELSE IF cancelled[cb] \in {"top", "again"} THEN "top"
    ELSE IF ~n /\ hist[cb] # <<>> THEN "top"
    ELSE IF n /\ Queued(cb) THEN "mid"
    ELSE cancelled[cb]

\* ... when cb subscribes: after "top" it stays barred ("again") until a
\* trigger reaches it again.
SubscribeNote(cb) == IF cancelled[cb] \in {"top", "again"} THEN "again" ELSE "no"

\* The recorded triggers that survive the removal of a subscription of cb;
\* they are marked as cut by it.
Surviving(h, subsAll, autosAll, cb) ==
    LET kept == SelectSeq(h, LAMBDA e : Backed(e, subsAll, autosAll, cb))
    IN [i \in 1..Len(kept) |-> [kept[i] EXCEPT !.cut = TRUE]]

\* The window starts of the owed deliveries once the recorded triggers are h
\* and a delivery recorded now starts at time w.
SinceAfter(h, w) ==
    [c \in Callbacks |-> IF h[c] = <<>> THEN 0
                          ELSE IF since[c] = 0 THEN w ELSE since[c]]

\* ------------------------------------------------------------------------
\* Control: who may call, and what a call leaves behind
\* ------------------------------------------------------------------------

\* A call is issued at top level (n = FALSE) when nothing is executing, or
\* (n = TRUE) by the subscriber callback that the resolver is invoking.
Level(n) ==
    IF n THEN pc = "resolving" /\ running # NoCallback /\ nested < MaxNested
    ELSE pc = "idle"

\* The call returns without having asked for a resolver pass: nothing was
\* invoked, so a top-level call leaves the thread idle as it found it.
Finish(n) ==
    /\ nested' = IF n THEN nested + 1 ELSE nested
    /\ phase' = "other"
    /\ UNCHANGED <<pc, op, callbacks, running, _isTriggering, _triggerPending, log, due,
                   requests, passNo, batch>>

\* StoreBase.ts:213-237: the flag is raised and the deliverable entries of
\* pend are captured and removed; h and t are the history values the
\* capture is made from.
StartPass(pend, blockCount, bypassThrottle, h, sn, t) ==
    LET cap == Captured(pend, blockCount, bypassThrottle, now)
        capSet == {cap[i].callback : i \in 1..Len(cap)}
    IN /\ _isTriggering' = TRUE
       /\ _triggerPending' = FALSE
       /\ callbacks' = cap
       /\ _pendingCallbacks' = Remaining(pend, blockCount, bypassThrottle, now)
       /\ running' = NoCallback
       /\ pc' = "resolving"
       /\ hist' = [c \in Callbacks |-> IF c \in capSet THEN <<>> ELSE h[c]]
       /\ since' = [c \in Callbacks |-> IF c \in capSet THEN 0 ELSE sn[c]]
       /\ due' = [c \in Callbacks |->
                     IF c \in capSet THEN [trigs |-> h[c], since |-> sn[c]] ELSE due[c]]
       /\ requests' = 0
       /\ passNo' = passNo + 1
       /\ batch' = t
       /\ trig' = {}
       /\ phase' = "collected"

\* Variant: the reentrancy flag is not consulted
_resolveCallbacks_Nest(n, o, pend, blockCount, bypassThrottle, h, sn, t) ==
    /\ StartPass(pend, blockCount, bypassThrottle, h, sn, t)
    /\ op' = IF n THEN op ELSE o
    /\ nested' = IF n THEN nested + 1 ELSE nested
    /\ UNCHANGED log

\* StoreBase.ts:206-250, up to the end of the capture loop.
_resolveCallbacks(n, o, pend, blockCount, bypassThrottle, h, sn, t) ==
    IF _isTriggering
    THEN /\ _triggerPending' = TRUE
         /\ _pendingCallbacks' = pend
         /\ hist' = h
         /\ since' = sn
         /\ trig' = t
         /\ requests' = requests + 1
         /\ pc' = IF n THEN pc ELSE "done"
         /\ op' = IF n THEN op ELSE o
         /\ nested' = IF n THEN nested + 1 ELSE nested
         /\ phase' = "other"
         /\ UNCHANGED <<callbacks, running, _isTriggering, log, due, passNo, batch>>
    ELSE /\ StartPass(pend, blockCount, bypassThrottle, h, sn, t)
         /\ op' = IF n THEN op ELSE o
         /\ nested' = IF n THEN nested + 1 ELSE nested
         /\ UNCHANGED log

\* callbacks.forEach(([callback, keys]) => callback(keys)): the next
\* captured callback is entered (the previous one, if any, has returned).
Invoke ==
    /\ pc = "resolving"
    /\ callbacks # <<>>
    /\ running' = Head(callbacks).callback
    /\ callbacks' = Tail(callbacks)
    /\ log' = Append(log, Head(callbacks))
    /\ phase' = "invoked"
    /\ UNCHANGED <<regVars, _throttleData, staticVars, defaultThrottleMs, now, pc>>
    /\ UNCHANGED <<op, nested, hist, since, window, due, cancelled, flushed, requests,
                   passNo, trig, batch, issued>>
    /\ Quiet

\* The callback being invoked throws.  Nothing in lines 239-245 catches: the
\* exception leaves callbacks.forEach and _resolveCallbacks and ends the
\* top-level call; the rest of the captured array is dropped with the frame
\* and line 245 is not reached.
Throw ==
    /\ pc = "resolving"
    /\ running # NoCallback
    /\ pc' = "done"
    /\ callbacks' = <<>>
    /\ running' = NoCallback
    /\ outcome' = [hooks |-> <<>>, error |-> "CallbackFailed"]
    /\ phase' = "other"
    /\ UNCHANGED <<regVars, _throttleData, staticVars, defaultThrottleMs, now>>
    /\ UNCHANGED <<op, log, nested, hist, since, window, due, cancelled, flushed, requests,
                   passNo, trig, batch, issued>>

\* StoreBase.ts:243-249: the last captured callback has returned; the flag
\* is cleared and one more pass follows if one was asked for.
EndPass ==
    /\ pc = "resolving"
    /\ callbacks = <<>>
    /\ IF _triggerPending
       THEN StartPass(_pendingCallbacks, _triggerBlockCount, _bypassThrottle, hist, since,
                      trig)
       ELSE /\ _isTriggering' = FALSE
            /\ running' = NoCallback
            /\ pc' = "done"
            /\ phase' = "other"
            /\ UNCHANGED <<_triggerPending, _pendingCallbacks, callbacks, hist, since, due,
                           requests, passNo, trig, batch>>
    /\ UNCHANGED <<regVars, _throttleData, _triggerBlockCount, _bypassThrottle,
                   defaultThrottleMs, now>>
    /\ UNCHANGED <<op, log, nested, window, cancelled, flushed, issued>>
    /\ Quiet

\* The top-level call has returned to its caller.
Return ==
    /\ pc = "done"
    /\ pc' = "idle"
    /\ op' = NoOp
    /\ log' = <<>>
    /\ nested' = 0
    /\ due' = [c \in Callbacks |-> NoDue]
    /\ requests' = 0
    /\ passNo' = 0
    /\ batch' = {}
    /\ phase' = "other"
    /\ flushed' = IF op.name = "setThrottleStatus" THEN flushed \cup op.who ELSE flushed
    /\ UNCHANGED <<regVars, _throttleData, staticVars, defaultThrottleMs, now, callbacks,
                   running, hist, since, window, cancelled, trig, issued>>
    /\ Quiet

\* ------------------------------------------------------------------------
\* Subscription registry (StoreBase.ts:255-342)
\* ------------------------------------------------------------------------

RECURSIVE TokensIssuedIn(_)
TokensIssuedIn(S) ==
    IF S = {} THEN 0
    ELSE LET s == CHOOSE x \in S : TRUE
         IN (_subTokenNum[s] - 1) + TokensIssuedIn(S \ {s})

RECURSIVE AutoTrackedIn(_)
AutoTrackedIn(S) ==
    IF S = {} THEN 0
    ELSE LET s == CHOOSE x \in S : TRUE
         IN Len(Flatten(Values(_autoSubscriptions[s]))) + AutoTrackedIn(S \ {s})

\* The registry after subscribe(callback, key)
SubscribeDict(d, key, callback) ==
    IF ~DictHas(d, key)
    THEN DictSet(d, key, <<callback>>)
    ELSE DictSet(d, key, Append(DictGet(d, key), callback))

\* A call of one of the tracking hooks of store s
HookCall(s, hook, key) == [store |-> s, hook |-> hook, key |-> key]

\* The hook calls of subscribe / trackAutoSubscription: _startedTrackingKey
\* when the key is new to the registry d, is not the sentinel and the other
\* registry has no list under it.
StartedCalls(s, d, other, key) ==
    IF ~DictHas(d, key) /\ key # Key_All /\ ~DictHas(other, key)
    THEN <<HookCall(s, "started", key)>>
    ELSE <<>>

\* The hook calls of unsubscribe / removeAutoSubscription: _stoppedTrackingKey
\* when the list left under the key is empty, the key is not the sentinel
\* and the other registry has no list under it.
StoppedCalls(s, rest, other, key) ==
    IF Len(rest) = 0 /\ key # Key_All /\ ~DictHas(other, key)
    THEN <<HookCall(s, "stopped", key)>>
    ELSE <<>>

\* Variant: the token counter is not advanced
NextTokenNum_Stuck(num) == num

\* this._subTokenNum++ : the counter after the call
NextTokenNum(num) == num + 1

\* this._subsByNum[token] = { key, callback }
SubsByNumSet(byNum, token, key, callback) ==
    {r \in byNum : r.token # token}
       \cup {[token |-> token, key |-> key, callback |-> callback]}

\* subscribe(callback, key) on store s; it returns _subTokenNum[s]
Subscribe(n, s, callback, key) ==
    /\ Level(n)
    /\ TokensIssuedIn(Stores) < MaxToken
    /\ _subscriptions' = [_subscriptions EXCEPT ![s] = SubscribeDict(@, key, callback)]
    /\ _subsByNum' = [_subsByNum EXCEPT
           ![s] = SubsByNumSet(@, _subTokenNum[s], key, callback)]
    /\ _subTokenNum' = [_subTokenNum EXCEPT ![s] = NextTokenNum(@)]
    /\ issued' = [issued EXCEPT ![s].returned = @ \cup {_subTokenNum[s]}]
    /\ outcome' = [hooks |-> StartedCalls(s, _subscriptions[s], _autoSubscriptions[s], key),
                   error |-> "none"]
    /\ cancelled' = [cancelled EXCEPT ![callback] = SubscribeNote(callback)]
    /\ Finish(n)
    /\ UNCHANGED <<_autoSubscriptions, _throttleData, _triggerBlockCount, _bypassThrottle,
                   _pendingCallbacks, defaultThrottleMs, now, hist, since, window, flushed,
                   trig>>

\* The registry after the list surgery of unsubscribe (index !== -1)
UnsubscribeDict(d, key, callback) ==
    LET cbs == DictGet(d, key)
        rest == Splice(cbs, IndexOf(cbs, callback))
    IN IF Len(rest) = 0 THEN DictDelete(d, key) ELSE DictSet(d, key, rest)

\* Variant: unsubscribe leaves the pending table alone
UnsubscribePurge_Skip(pend, callback) == pend

\* _pendingCallbacks.delete(callback), as unsubscribe does it
UnsubscribePurge(pend, callback) == MapDelete(pend, callback)

\* Variant: the token stays in the token table
SubsByNumDelete_Keep(byNum, subToken) == byNum

\* delete this._subsByNum[subToken]
SubsByNumDelete(byNum, subToken) == {r \in byNum : r.token # subToken}

\* unsubscribe(subToken) on store s, for a live token
Unsubscribe(n, s, subToken) ==
    /\ Level(n)
    /\ \E r \in _subsByNum[s] : r.token = subToken
    /\ LET r == CHOOSE x \in _subsByNum[s] : x.token = subToken
           subs2 == [_subscriptions EXCEPT ![s] = UnsubscribeDict(@, r.key, r.callback)]
       IN /\ _subsByNum' = [_subsByNum EXCEPT ![s] = SubsByNumDelete(@, subToken)]
          /\ issued' = [issued EXCEPT ![s].retired = @ \cup {subToken}]
          /\ _pendingCallbacks' = UnsubscribePurge(_pendingCallbacks, r.callback)
          /\ _subscriptions' = subs2
          /\ cancelled' = [cancelled EXCEPT
                 ![r.callback] = CancelNote(n, subs2, _autoSubscriptions, r.callback)]
          /\ LET h == Surviving(hist[r.callback], subs2, _autoSubscriptions, r.callback)
             IN /\ hist' = [hist EXCEPT ![r.callback] = h]
                /\ since' = [since EXCEPT ![r.callback] = IF h = <<>> THEN 0 ELSE @]
          /\ outcome' = [hooks |-> StoppedCalls(s, Splice(DictGet(_subscriptions[s], r.key),
                                                      IndexOf(DictGet(_subscriptions[s], r.key),
                                                              r.callback)),
                                               _autoSubscriptions[s], r.key),
                         error |-> "none"]
          /\ Finish(n)
    /\ UNCHANGED <<_autoSubscriptions, _subTokenNum, _throttleData, _triggerBlockCount,
                   _bypassThrottle, defaultThrottleMs, now, window, flushed, trig>>

\* unsubscribe(subToken) on store s, for a token that is not live: the
\* assertion of line 279 fails before anything is touched.
UnsubscribeUnknown(s, subToken) ==
    /\ pc = "idle"
    /\ ~\E r \in _subsByNum[s] : r.token = subToken
    /\ outcome' = [hooks |-> <<>>, error |-> "UnknownToken"]
    /\ phase' = "other"
    /\ UNCHANGED <<regVars, _throttleData, staticVars, defaultThrottleMs, now, ctlVars>>
    /\ UNCHANGED <<op, log, nested, hist, since, window, due, cancelled, flushed, requests,
                   passNo, trig, batch, issued>>

\* The auto-subscription records the embedding layer may hand to store s:
\* one object per callback and key.
AutoRecords(s) == {[store |-> s, callback |-> c, key |-> k] : c \in Callbacks, k \in SubKeys}

\* trackAutoSubscription(subscription) on store subscription.store, explored
\* up to the given number of tracked records
TrackAutoSubscription(n, subscription, limit) ==
    LET s == subscription.store
        key == subscription.key
    IN /\ Level(n)
       /\ AutoTrackedIn(Stores) < limit
       /\ outcome' = [hooks |-> StartedCalls(s, _autoSubscriptions[s], _subscriptions[s], key),
                      error |-> "none"]
       /\ _autoSubscriptions' = [_autoSubscriptions EXCEPT
              ![s] = SubscribeDict(@, key, subscription)]
       /\ cancelled' = [cancelled EXCEPT
              ![subscription.callback] = SubscribeNote(subscription.callback)]
       /\ Finish(n)
       /\ UNCHANGED <<_subscriptions, _subTokenNum, _subsByNum, _throttleData,
                      _triggerBlockCount, _bypassThrottle, _pendingCallbacks,
                      defaultThrottleMs, now, hist, since, window, flushed, trig, issued>>

\* The registry after the list surgery of removeAutoSubscription
RemoveAutoDict(d, key, subscription) ==
    LET rest == Pull(DictGet(d, key), subscription)
    IN IF Len(rest) = 0 THEN DictDelete(d, key) ELSE DictSet(d, key, rest)

\* removeAutoSubscription(subscription), for a record that is once in the
\* list of its key: both assertions pass
RemoveAutoSubscription(n, subscription) ==
    LET s == subscription.store
        key == subscription.key
        cb == subscription.callback
    IN /\ Level(n)
       /\ DictHas(_autoSubscriptions[s], key)
       /\ Len(Pull(DictGet(_autoSubscriptions[s], key), subscription))
             = Len(DictGet(_autoSubscriptions[s], key)) - 1
       /\ LET autos2 == [_autoSubscriptions EXCEPT
                            ![s] = RemoveAutoDict(@, key, subscription)]
          IN /\ _autoSubscriptions' = autos2
             /\ _pendingCallbacks' = MapDelete(_pendingCallbacks, cb)
             /\ cancelled' = [cancelled EXCEPT
                    ![cb] = CancelNote(n, _subscriptions, autos2, cb)]
             /\ LET h == Surviving(hist[cb], _subscriptions, autos2, cb)
                IN /\ hist' = [hist EXCEPT ![cb] = h]
                   /\ since' = [since EXCEPT ![cb] = IF h = <<>> THEN 0 ELSE @]
       /\ outcome' = [hooks |-> StoppedCalls(s, Pull(DictGet(_autoSubscriptions[s], key),
                                                   subscription),
                                            _subscriptions[s], key),
                      error |-> "none"]
       /\ Finish(n)
       /\ UNCHANGED <<_subscriptions, _subTokenNum, _subsByNum, _throttleData,
                      _triggerBlockCount, _bypassThrottle, defaultThrottleMs, now,
                      window, flushed, trig, issued>>

\* removeAutoSubscription(subscription) when an assertion fails: no list
\* under the key (line 325), or the list has not shrunk by exactly one
\* (line 330), which is tested after pull has rewritten the list in place.
RemoveAutoSubscriptionNotFound(subscription) ==
    LET s == subscription.store
        key == subscription.key
        d == _autoSubscriptions[s]
    IN /\ pc = "idle"
       /\ \/ ~DictHas(d, key)
          \/ /\ DictHas(d, key)
             /\ Len(Pull(DictGet(d, key), subscription)) # Len(DictGet(d, key)) - 1
       /\ _autoSubscriptions' = [_autoSubscriptions EXCEPT
              ![s] = IF DictHas(d, key)
                     THEN DictSet(d, key, Pull(DictGet(d, key), subscription))
                     ELSE d]
       /\ outcome' = [hooks |-> <<>>, error |-> "SubscriptionNotFound"]
       /\ phase' = "other"
       /\ UNCHANGED <<_subscriptions, _subTokenNum, _subsByNum, _throttleData, staticVars,
                      defaultThrottleMs, now, ctlVars>>
       /\ UNCHANGED <<op, log, nested, hist, since, window, due, cancelled, flushed,
                      requests, passNo, trig, batch, issued>>

\* ------------------------------------------------------------------------
\* Trigger (StoreBase.ts:86-148)
\* ------------------------------------------------------------------------

\* The effective delay: the store's own, else Options.defaultThrottleMs
EffectiveThrottleMs(s) ==
    IF HasThrottleMs(s) THEN ThrottleMsOf(s) ELSE defaultThrottleMs

\* The delay handed to Options.setTimeout: this._throttleMs; a timer set
\* with an undefined delay is due at once.
TimerDelay(s) == IF HasThrottleMs(s) THEN ThrottleMsOf(s) ELSE 0

\* this._throttleData after the throttle block of trigger
ThrottleDataAfterTrigger(s) ==
    IF EffectiveThrottleMs(s) # 0 /\ ~_throttleData[s].set
    THEN [set |-> TRUE, timerAt |-> now + TimerDelay(s),
          callbackTime |-> now + EffectiveThrottleMs(s)]
    ELSE _throttleData[s]

\* the local throttledUntil of trigger (0: undefined)
ThrottledUntil(s) ==
    IF EffectiveThrottleMs(s) # 0 THEN ThrottleDataAfterTrigger(s).callbackTime ELSE 0

\* Variant: trigger also resolves at once while throttling is bypassed
ResolvesAtOnce_Unthrottled(throttledUntil, bypassBlock) ==
    throttledUntil = 0 \/ bypassBlock \/ _bypassThrottle

\* if (!throttledUntil || bypassBlock)
ResolvesAtOnce(throttledUntil, bypassBlock) == throttledUntil = 0 \/ bypassBlock

\* Arguments of trigger: no key, or a list of string keys.
NoKey == [all |-> TRUE, keys |-> <<>>]

KeyList(ks) == [all |-> FALSE, keys |-> ks]

\* trigger(arg) on store s
Trigger(n, s, arg) ==
    LET throttledUntil == ThrottledUntil(s)
        bypassBlock == BypassTriggerBlocks(s)
        pend == TriggerFanOut(arg, _subscriptions[s], _autoSubscriptions[s],
                              _pendingCallbacks, throttledUntil, bypassBlock)
        aff == [c \in Callbacks |->
                   Affected(arg, _subscriptions[s], _autoSubscriptions[s], c)]
        who == {c \in Callbacks : aff[c].hit}
        h == [c \in Callbacks |->
                 IF aff[c].hit
                 THEN Append(hist[c], [store |-> s, all |-> arg.all, keys |-> aff[c].keys,
                                       list |-> aff[c].list, cut |-> FALSE])
                 ELSE hist[c]]
        w == IF EffectiveThrottleMs(s) = 0 THEN window[s]
             ELSE IF window[s] = 0 THEN now ELSE window[s]
        sn == SinceAfter(h, IF EffectiveThrottleMs(s) = 0 THEN now ELSE w)
        t == IF ResolvesAtOnce(throttledUntil, bypassBlock) /\ _triggerBlockCount = 0
             THEN trig \cup Range(arg.keys)
             ELSE trig
        o == [name |-> "trigger", store |-> s, who |-> who, block |-> _triggerBlockCount]
    IN /\ Level(n)
       /\ \A c \in who : Len(hist[c]) < MaxMerge
       /\ _throttleData' = [_throttleData EXCEPT ![s] = ThrottleDataAfterTrigger(s)]
       /\ flushed' = flushed \ who
       /\ IF ResolvesAtOnce(throttledUntil, bypassBlock)
          THEN _resolveCallbacks(n, o, pend, _triggerBlockCount, _bypassThrottle, h, sn, t)
          ELSE /\ _pendingCallbacks' = pend
               /\ hist' = h
               /\ since' = sn
               /\ trig' = t
               /\ Finish(n)
       /\ window' = [window EXCEPT ![s] = w]
       /\ cancelled' = [c \in Callbacks |->
                           IF c \in who /\ cancelled[c] = "again" THEN "no" ELSE cancelled[c]]
       /\ Quiet
       /\ UNCHANGED <<regVars, _triggerBlockCount, _bypassThrottle, defaultThrottleMs, now,
                      issued>>

\* _handleThrottledCallbacks of store s: its timer expires
HandleThrottledCallbacks(s) ==
    /\ pc = "idle"
    /\ _throttleData[s].set
    /\ _throttleData[s].timerAt <= now
    /\ _throttleData' = [_throttleData EXCEPT ![s] = NoThrottleData]
    /\ _resolveCallbacks(FALSE, [name |-> "timer", store |-> s, who |-> {},
                                 block |-> _triggerBlockCount],
                         _pendingCallbacks, _triggerBlockCount, _bypassThrottle, hist, since,
                         trig)
    /\ window' = [window EXCEPT
           ![s] = IF @ # 0 /\ @ + EffectiveThrottleMs(s) <= now THEN 0 ELSE @]
    /\ Quiet
    /\ UNCHANGED <<regVars, _triggerBlockCount, _bypassThrottle, defaultThrottleMs, now,
                   cancelled, flushed, issued>>

\* Some timer is running or some pending entry has a due-time not yet reached.
TimeMatters ==
    \/ \E s \in Stores : _throttleData[s].set
    \/ \E i \in 1..Len(_pendingCallbacks) : _pendingCallbacks[i].throttledUntil > now

\* Time passes while nothing executes; a timer fires when it is due.  The
\* clock is read only to set and to test due-times, so it is advanced only
\* while one is outstanding.
Tick ==
    /\ pc = "idle"
    /\ now < MaxTime
    /\ TimeMatters
    /\ \A s \in Stores : _throttleData[s].set => _throttleData[s].timerAt > now
    /\ now' = now + 1
    /\ window' = [s \in Stores |->
                     IF window[s] # 0 /\ window[s] + EffectiveThrottleMs(s) <= now
                     THEN 0 ELSE window[s]]
    /\ UNCHANGED <<regVars, _throttleData, staticVars, defaultThrottleMs, ctlVars>>
    /\ UNCHANGED <<op, log, nested, hist, since, due, cancelled, flushed, requests, passNo,
                   trig, batch, phase, issued>>
    /\ Quiet

\* ------------------------------------------------------------------------
\* Block stack and throttle switch (StoreBase.ts:62-79)
\* ------------------------------------------------------------------------

\* popTriggerBlock() with the counter at zero or below: the counter is
\* decremented (line 67) before the assertion of line 68 fails.
PopTriggerBlockImbalanced ==
    /\ pc = "idle"
    /\ _triggerBlockCount - 1 < 0
    /\ _triggerBlockCount > 0 - MaxOverPop
    /\ _triggerBlockCount' = _triggerBlockCount - 1
    /\ outcome' = [hooks |-> <<>>, error |-> "ImbalancedBlockStack"]
    /\ phase' = "other"
    /\ UNCHANGED <<regVars, _throttleData, _triggerPending, _isTriggering, _bypassThrottle,
                   _pendingCallbacks, defaultThrottleMs, now, ctlVars>>
    /\ UNCHANGED <<op, log, nested, hist, since, window, due, cancelled, flushed, requests,
                   passNo, trig, batch, issued>>

\* pushTriggerBlock(), explored up to the given nesting depth
PushTriggerBlock(n, depth) ==
    /\ Level(n)
    /\ _triggerBlockCount < depth
    /\ _triggerBlockCount' = _triggerBlockCount + 1
    /\ Finish(n)
    /\ Quiet
    /\ UNCHANGED <<regVars, _throttleData, _bypassThrottle, _pendingCallbacks,
                   defaultThrottleMs, now, hist, since, window, cancelled, flushed, trig,
                   issued>>

\* popTriggerBlock(), for a counter above zero
PopTriggerBlock(n) ==
    LET o == [name |-> "popTriggerBlock", store |-> "-", who |-> {},
              block |-> _triggerBlockCount - 1]
    IN /\ Level(n)
       /\ _triggerBlockCount > 0
       /\ _triggerBlockCount' = _triggerBlockCount - 1
       /\ IF _triggerBlockCount - 1 = 0
          THEN _resolveCallbacks(n, o, _pendingCallbacks, 0, _bypassThrottle, hist, since,
                                 trig)
          ELSE /\ Finish(n)
               /\ UNCHANGED <<_pendingCallbacks, hist, since, trig>>
       /\ Quiet
       /\ UNCHANGED <<regVars, _throttleData, _bypassThrottle, defaultThrottleMs, now,
                      window, cancelled, flushed, issued>>

\* Callbacks whose pending entry has a due-time still in the future
FutureDue == {_pendingCallbacks[i].callback : i \in
                 {j \in 1..Len(_pendingCallbacks) :
                     _pendingCallbacks[j].throttledUntil > now}}

\* setThrottleStatus(enabled)
SetThrottleStatus(n, enabled) ==
    LET o == [name |-> "setThrottleStatus", store |-> "-",
              who |-> IF ~enabled /\ ~n /\ _triggerBlockCount = 0 THEN FutureDue ELSE {},
              block |-> _triggerBlockCount]
    IN /\ Level(n)
       /\ _bypassThrottle' = ~enabled
       /\ _resolveCallbacks(n, o, _pendingCallbacks, _triggerBlockCount, ~enabled, hist,
                            since, trig)
       /\ Quiet
       /\ UNCHANGED <<regVars, _throttleData, _triggerBlockCount, defaultThrottleMs, now,
                      window, cancelled, flushed, issued>>

\* ------------------------------------------------------------------------
\* Specifications.  Each explores the operations on a menu of stores,
\* subscriptions and trigger arguments.
\* ------------------------------------------------------------------------

Init == InitWith(0)

Sub(s, c, k) == [store |-> s, callback |-> c, key |-> k]

TriggerArgs == {NoKey, KeyList(<<"a">>), KeyList(<<"b">>), KeyList(<<"a", "b">>)}

KeyTriggerArgs == {KeyList(<<"a">>), KeyList(<<"b">>), KeyList(<<"a", "b">>)}

\* Spec: one store without delay, no block; callbacks call back into the
\* store (subscribe, unsubscribe, trigger) while the resolver invokes them.
Next ==
    \/ \E n \in BOOLEAN, c \in Callbacks, k \in SubKeys : Subscribe(n, "P", c, k)
    \/ \E n \in BOOLEAN, tok \in 1..MaxToken : Unsubscribe(n, "P", tok)
    \/ \E n \in BOOLEAN, arg \in TriggerArgs : Trigger(n, "P", arg)
    \/ Invoke
    \/ EndPass
    \/ Return

Spec == Init /\ [][Next]_vars

\* SpecNest: callbacks of a pass ask for resolution themselves, by trigger,
\* by the block stack and by the throttle switch.
NestSubs == {Sub("P", "c1", "a"), Sub("P", "c2", "a"), Sub("P", "c2", "b")}

NextNest ==
    \/ \E m \in NestSubs : Subscribe(FALSE, m.store, m.callback, m.key)
    \/ \E n \in BOOLEAN, arg \in KeyTriggerArgs : Trigger(n, "P", arg)
    \/ \E n \in BOOLEAN : PushTriggerBlock(n, MaxHoldBlock)
    \/ \E n \in BOOLEAN : PopTriggerBlock(n)
    \/ \E n \in BOOLEAN, e \in BOOLEAN : SetThrottleStatus(n, e)
    \/ Invoke
    \/ EndPass
    \/ Return

SpecNest == Init /\ [][NextNest]_vars

\* SpecBlock: a plain store and a block-bypassing store under the trigger
\* block stack; all calls are issued at top level.
BlockStores == {"P", "B"}

BlockSubs == {Sub("P", "c1", "a"), Sub("P", "c2", Key_All), Sub("B", "c1", "a")}

NextBlock ==
    \/ \E m \in BlockSubs : Subscribe(FALSE, m.store, m.callback, m.key)
    \/ \E s \in BlockStores, tok \in 1..MaxToken : Unsubscribe(FALSE, s, tok)
    \/ \E s \in BlockStores, arg \in TriggerArgs : Trigger(FALSE, s, arg)
    \/ PushTriggerBlock(FALSE, MaxBlock)
    \/ PopTriggerBlock(FALSE)
    \/ Invoke
    \/ EndPass
    \/ Return

SpecBlock == Init /\ [][NextBlock]_vars

\* SpecHold: one callback on a plain store P and a throttled store Q, with
\* explicit and auto subscriptions; deliveries are held back by the block
\* stack and by Q's delay, and released by pop, timer and throttle switch.
HoldStores == {"P", "Q"}

HoldSubs == {Sub("P", "c1", "a"), Sub("Q", "c1", "b"), Sub("Q", "c1", Key_All)}

HoldAutoSubs == {Sub("P", "c1", "b")}

NextHold ==
    \/ \E m \in HoldSubs : Subscribe(FALSE, m.store, m.callback, m.key)
    \/ \E s \in HoldStores, tok \in 1..MaxToken : Unsubscribe(FALSE, s, tok)
    \/ \E r \in HoldAutoSubs : TrackAutoSubscription(FALSE, r, MaxAuto)
    \/ \E r \in HoldAutoSubs : RemoveAutoSubscription(FALSE, r)
    \/ \E s \in HoldStores, arg \in KeyTriggerArgs : Trigger(FALSE, s, arg)
    \/ \E s \in HoldStores : HandleThrottledCallbacks(s)
    \/ Tick
    \/ PushTriggerBlock(FALSE, MaxHoldBlock)
    \/ PopTriggerBlock(FALSE)
    \/ \E e \in BOOLEAN : SetThrottleStatus(FALSE, e)
    \/ Invoke
    \/ EndPass
    \/ Return

SpecHold == Init /\ [][NextHold]_vars

\* SpecMerge: triggers of a plain and a throttled store are merged while a
\* block, a delay or the running pass holds the delivery back.
MergeSubs == {Sub("P", "c2", "a"), Sub("P", "c1", "b"), Sub("Q", "c1", "a")}

MergeAutoSubs == {Sub("Q", "c1", Key_All)}

NextMerge ==
    \/ \E m \in MergeSubs : Subscribe(FALSE, m.store, m.callback, m.key)
    \/ \E r \in MergeAutoSubs : TrackAutoSubscription(FALSE, r, MaxAuto)
    \/ \E n \in BOOLEAN, s \in HoldStores, arg \in KeyTriggerArgs : Trigger(n, s, arg)
    \/ \E s \in HoldStores : HandleThrottledCallbacks(s)
    \/ Tick
    \/ PushTriggerBlock(FALSE, MaxHoldBlock)
    \/ PopTriggerBlock(FALSE)
    \/ Invoke
    \/ EndPass
    \/ Return

SpecMerge == Init /\ [][NextMerge]_vars

\* SpecThrottle: Options.defaultThrottleMs is set, so store P (no delay of
\* its own) and store Q (its own delay) both coalesce.
InitThrottle == InitWith(ThrottleMs)

ThrottleStores == {"P", "Q"}

ThrottleSubs == {Sub("P", "c1", "a"), Sub("P", "c1", "b"), Sub("Q", "c1", "a"),
                 Sub("Q", "c2", "a")}

NextThrottle ==
    \/ \E m \in ThrottleSubs : Subscribe(FALSE, m.store, m.callback, m.key)
    \/ \E s \in ThrottleStores, tok \in 1..MaxToken : Unsubscribe(FALSE, s, tok)
    \/ \E s \in ThrottleStores, arg \in KeyTriggerArgs : Trigger(FALSE, s, arg)
    \/ \E s \in ThrottleStores : HandleThrottledCallbacks(s)
    \/ Tick
    \/ \E e \in BOOLEAN : SetThrottleStatus(FALSE, e)
    \/ Invoke
    \/ EndPass
    \/ Return

SpecThrottle == InitThrottle /\ [][NextThrottle]_vars

\* SpecDue: a plain and a throttled store reach one callback with no-key
\* and key triggers, while a block or the delay holds the delivery back.
DueSubs == {Sub("P", "c1", "a"), Sub("Q", "c1", "a")}

DueTriggerArgs == {NoKey, KeyList(<<"a">>)}

NextDue ==
    \/ \E m \in DueSubs : Subscribe(FALSE, m.store, m.callback, m.key)
    \/ \E s \in HoldStores, arg \in DueTriggerArgs : Trigger(FALSE, s, arg)
    \/ \E s \in HoldStores : HandleThrottledCallbacks(s)
    \/ Tick
    \/ PushTriggerBlock(FALSE, MaxHoldBlock)
    \/ PopTriggerBlock(FALSE)
    \/ Invoke
    \/ EndPass
    \/ Return

SpecDue == Init /\ [][NextDue]_vars

\* SpecFail: calls that end in a failure: a pop without a matching push and
\* a subscriber callback that throws.
FailSubs == {Sub("P", "c1", "a"), Sub("P", "c2", "a")}

NextFail ==
    \/ \E m \in FailSubs : Subscribe(FALSE, m.store, m.callback, m.key)
    \/ \E n \in BOOLEAN : Trigger(n, "P", KeyList(<<"a">>))
    \/ PushTriggerBlock(FALSE, MaxHoldBlock)
    \/ PopTriggerBlock(FALSE)
    \/ PopTriggerBlockImbalanced
    \/ Invoke
    \/ Throw
    \/ EndPass
    \/ Return

SpecFail == Init /\ [][NextFail]_vars

\* SpecRegistry: the two registries of one store under every registry call,
\* failing ones included, while a block holds a delivery back.
RegistrySubs == {Sub("P", "c1", "b"), Sub("P", "c1", Key_All)}

RegistryAutoSubs == {Sub("P", "c1", "b")}

NextRegistry ==
    \/ \E m \in RegistrySubs : Subscribe(FALSE, m.store, m.callback, m.key)
    \/ \E tok \in 1..MaxToken : Unsubscribe(FALSE, "P", tok)
    \/ \E tok \in 1..MaxToken : UnsubscribeUnknown("P", tok)
    \/ \E r \in RegistryAutoSubs : TrackAutoSubscription(FALSE, r, MaxTrack)
    \/ \E r \in RegistryAutoSubs : RemoveAutoSubscription(FALSE, r)
    \/ \E r \in RegistryAutoSubs : RemoveAutoSubscriptionNotFound(r)
    \/ Trigger(FALSE, "P", KeyList(<<"b">>))
    \/ PushTriggerBlock(FALSE, MaxHoldBlock)
    \/ PopTriggerBlock(FALSE)
    \/ Invoke
    \/ EndPass
    \/ Return

SpecRegistry == Init /\ [][NextRegistry]_vars

\* SpecOrder: key lists triggered in either order on a store whose
\* subscribers listen to a key, to the all-keys sentinel, or to both.
OrderSubs == {Sub("P", "c1", "b"), Sub("P", "c1", Key_All), Sub("P", "c2", Key_All)}

OrderTriggerArgs == {KeyList(<<"a", "b">>), KeyList(<<"b", "a">>)}

NextOrder ==
    \/ \E m \in OrderSubs : Subscribe(FALSE, m.store, m.callback, m.key)
    \/ \E tok \in 1..MaxToken : Unsubscribe(FALSE, "P", tok)
    \/ \E arg \in OrderTriggerArgs : Trigger(FALSE, "P", arg)
    \/ PushTriggerBlock(FALSE, MaxHoldBlock)
    \/ PopTriggerBlock(FALSE)
    \/ Invoke
    \/ EndPass
    \/ Return

SpecOrder == Init /\ [][NextOrder]_vars

\* SpecTimer: the timers of a store with the default delay (P) and of a
\* store with its own delay (Q); a timer that is due expires, time passes,
\* and a pass that has started runs to its end.  A trigger is explored only
\* when it reaches a subscriber and its due-time lies within the explored
\* time.
TimerSubs == {Sub("P", "c1", "a"), Sub("Q", "c2", "a"), Sub("Q", "c2", "b")}

NextTimer ==
    \/ \E m \in TimerSubs : Subscribe(FALSE, m.store, m.callback, m.key)
    \/ \E s \in ThrottleStores, arg \in KeyTriggerArgs :
          /\ now + EffectiveThrottleMs(s) <= MaxTime
          /\ \E c \in Callbacks :
                Affected(arg, _subscriptions[s], _autoSubscriptions[s], c).hit
          /\ Trigger(FALSE, s, arg)
    \/ \E s \in ThrottleStores : HandleThrottledCallbacks(s)
    \/ Tick
    \/ Invoke
    \/ EndPass
    \/ Return

SpecTimer ==
    /\ InitThrottle
    /\ [][NextTimer]_vars
    /\ WF_vars(\E s \in ThrottleStores : HandleThrottledCallbacks(s))
    /\ WF_vars(Tick)
    /\ WF_vars(Invoke)
    /\ WF_vars(EndPass)
    /\ WF_vars(Return)

\* ------------------------------------------------------------------------
\* Properties
\* ------------------------------------------------------------------------

NoDuplicates(seq) == \A i, j \in 1..Len(seq) : seq[i] = seq[j] => i = j

\* cb is subscribed on store s under key or under the all-keys sentinel
Listens(s, cb, key) ==
    \/ SubscribedUnder(_subscriptions[s], _autoSubscriptions[s], cb, key)
    \/ SubscribedUnder(_subscriptions[s], _autoSubscriptions[s], cb, Key_All)

\* the invocation just made
LastCall == log[Len(log)]

\* the index of the first trigger of d that carries key k
FirstIn(d, k) == CHOOSE j \in 1..Len(d) :
                    /\ k \in d[j].keys
                    /\ \A i \in 1..(j - 1) : k \notin d[i].keys

\* The key list of invocation e is the union of the key sets of the
\* specific-key triggers d, each key once, in order of first occurrence
\* across the triggers.
SpecificMerge(e, d) ==
    /\ ~e.all
    /\ NoDuplicates(e.keys)
    /\ Range(e.keys) = UNION {d[j].keys : j \in 1..Len(d)}
    /\ \A x, y \in 1..Len(e.keys) :
          FirstIn(d, e.keys[x]) < FirstIn(d, e.keys[y]) => x < y

\* Invocation e answers the triggers d: all keys if one of them was a
\* no-key trigger, else their merged key list.
Merged(e, d) ==
    IF \E j \in 1..Len(d) : d[j].all THEN e.all ELSE SpecificMerge(e, d)

\* No subscription of the callback was removed after a trigger of d.
Uncut(d) == \A j \in 1..Len(d) : ~d[j].cut

\* ---- C1 (SpecHold) ----

\* C1: once a top-level unsubscribe has removed the last subscription of a
\* callback that was owed a delivery, no later pop, timer expiry or throttle
\* switch invokes the callback, until it has subscribed and been triggered
\* again.
C1_NotInvokedAfterUnsubscribe ==
    \A c \in Callbacks : running = c => cancelled[c] \notin {"top", "again"}

\* a timer has expired, with no block in force, after such an unsubscribe
C1_Witness ==
    /\ pc = "done"
    /\ op.name = "timer"
    /\ _triggerBlockCount = 0
    /\ cancelled["c1"] = "top"

\* ---- C2, C3 (Spec) ----

\* C2: a callback whose only subscription is removed by another callback of
\* the running pass, before its own turn, is not invoked by that pass nor later.
C2_NotInvokedAfterMidFlightRemoval ==
    \A c \in Callbacks : running = c => cancelled[c] # "mid"

\* C3: on one store without delay and block, a pass delivers every triggered
\* key exactly once, without duplicates, to exactly the callbacks subscribed
\* to that key or to the sentinel when the pass delivers: the capture holds
\* every such callback, an invoked callback is such a callback, and a
\* delivered list holds triggered keys only.
C3_DeliversToSubscribersAtResolveTime ==
    /\ phase = "collected" =>
          \A k \in batch : \A c \in Callbacks :
             Listens("P", c, k) =>
                \E i \in 1..Len(callbacks) :
                   /\ callbacks[i].callback = c
                   /\ callbacks[i].all \/ k \in Range(callbacks[i].keys)
    /\ phase = "invoked" =>
          /\ \E k \in SubKeys : Listens("P", LastCall.callback, k)
          /\ NoDuplicates(LastCall.keys)
          /\ Range(LastCall.keys) \subseteq batch
          /\ \A k \in Range(LastCall.keys) : Listens("P", LastCall.callback, k)
    /\ NoDuplicates([i \in 1..Len(callbacks) |-> callbacks[i].callback])

\* ---- C9 (SpecNest) ----

\* C9: a call made by a callback of the running pass invokes nothing and
\* starts no pass; a pass starts only from an idle thread or as the one
\* follow-up when the running pass has invoked its last callback; when a
\* pass ends, exactly one further pass follows if a resolution was asked for
\* while it ran, and none otherwise; and once the outermost call has
\* returned with no block in force, nothing triggered is left undelivered.
C9_PassesDoNotNest ==
    [][/\ nested' = nested + 1 =>
             /\ log' = log
             /\ callbacks' = callbacks
             /\ running' = running
             /\ passNo' = passNo
       /\ passNo' > passNo =>
             \/ pc = "idle"
             \/ pc = "resolving" /\ callbacks = <<>> /\ nested' = nested /\ requests > 0
       /\ (pc = "resolving" /\ pc' = "done") => requests = 0
       /\ (pc = "resolving" /\ callbacks = <<>> /\ nested' = nested /\ requests > 0) =>
             /\ passNo' = passNo + 1
             /\ pc' = "resolving"
             /\ requests' = 0
       /\ (pc' = "done" /\ _triggerBlockCount' = 0) =>
             \A c \in Callbacks : \A j \in 1..Len(hist'[c]) : hist'[c][j].cut]_vars

\* a trigger made by a callback of the first pass has been delivered by the
\* second pass, before the outermost call returns
C9_Witness ==
    /\ pc = "resolving"
    /\ passNo = 2
    /\ nested > 0
    /\ Len(log) >= 2
    /\ phase = "invoked"

\* ---- C4 (SpecHold) ----

\* C4: while a callback is owed a delivery for a trigger, and still holds a
\* subscription that trigger reached, its pending entry exists and covers
\* the trigger, whatever other subscription of the callback was removed.
C4_NoDeliveryDropped ==
    \A c \in Callbacks :
       hist[c] # <<>> =>
          /\ MapHas(_pendingCallbacks, c)
          /\ \A j \in 1..Len(hist[c]) :
                LET m == MapGet(_pendingCallbacks, c)
                IN IF hist[c][j].all THEN m.all
                   ELSE m.all \/ hist[c][j].keys \subseteq Range(m.keys)

\* ---- C10 (SpecMerge) ----

\* C10: two specific-key triggers merged for a callback before resolution
\* give one invocation, whose key list is the union of the two key sets,
\* each key once, in order of first occurrence: the pass that answers them
\* invokes the callback with that list, holds no second invocation of it,
\* and leaves no pending entry for it but for triggers made since.
C10_MergedKeysAreUnion ==
    phase = "invoked" =>
       LET c == LastCall.callback
           d == due[c].trigs
       IN (Len(d) = 2 /\ Uncut(d) /\ \A j \in 1..Len(d) : ~d[j].all) =>
             /\ SpecificMerge(LastCall, d)
             /\ ~Queued(c)
             /\ MapHas(_pendingCallbacks, c) => hist[c] # <<>>

\* two key lists, the second with a new key, have been merged, one of them
\* triggered by a callback of the running pass
C10_Witness ==
    /\ phase = "invoked"
    /\ passNo = 2
    /\ LET d == due[LastCall.callback].trigs
       IN /\ Len(d) = 2
          /\ Uncut(d)
          /\ \A j \in 1..Len(d) : ~d[j].all
          /\ d[2].keys \ d[1].keys # {}

\* ---- C5, C6 (SpecBlock) ----

\* C5: triggers of a store that does not bypass blocks invoke nothing while
\* the block counter is above zero; the pop that returns the counter to zero
\* invokes each callback they reached exactly once, with the merged,
\* deduplicated key list, and leaves the pending table empty.
C5_BlockedTriggersDeliverAtLastPop ==
    /\ \A c \in Callbacks :
          (running = c /\ _triggerBlockCount > 0) =>
             \E j \in 1..Len(due[c].trigs) : BypassTriggerBlocks(due[c].trigs[j].store)
    /\ (pc = "done" /\ op.name = "popTriggerBlock" /\ op.block = 0) =>
          /\ _pendingCallbacks = <<>>
          /\ \A c \in Callbacks :
                /\ \A j \in 1..Len(hist[c]) : hist[c][j].cut
                /\ Logged(c) => due[c].trigs # <<>>
                /\ (due[c].trigs # <<>> /\ Uncut(due[c].trigs)) =>
                      /\ TimesLogged(c) = 1
                      /\ \A i \in 1..Len(log) :
                            log[i].callback = c => Merged(log[i], due[c].trigs)

\* the last pop has delivered two merged triggers made under the block
C5_Witness ==
    /\ pc = "done"
    /\ op.name = "popTriggerBlock"
    /\ op.block = 0
    /\ \E c \in Callbacks :
          /\ Logged(c)
          /\ Len(due[c].trigs) = 2
          /\ Uncut(due[c].trigs)
          /\ \A j \in 1..2 : ~BypassTriggerBlocks(due[c].trigs[j].store)

\* C6: a trigger of a store constructed with the block bypass invokes the
\* callbacks it reaches during the trigger call itself, once each, whatever
\* the block counter.
C6_BypassStoreFiresUnderBlock ==
    (pc = "done" /\ op.name = "trigger" /\ BypassTriggerBlocks(op.store)) =>
       \A c \in op.who : TimesLogged(c) = 1

\* such a trigger has returned with the block counter above zero
C6_Witness ==
    /\ pc = "done"
    /\ op.name = "trigger"
    /\ BypassTriggerBlocks(op.store)
    /\ op.block > 0
    /\ op.who # {}
    /\ _triggerBlockCount > 0

\* ---- C7, C8 (SpecThrottle) ----

\* c is owed deliveries by store s only, none cut by a removed subscription
OwedBy(c, s) ==
    /\ hist[c] # <<>>
    /\ Uncut(hist[c])
    /\ \A j \in 1..Len(hist[c]) : hist[c][j].store = s

\* C7: with a delay D in effect for a store, the triggers made within a
\* window opened at t0 give each callback one invocation at t0 + D with the
\* merged keys: a delivery owed since t0 keeps the due-time t0 + D, is never
\* late, is made by a timer of the store at t0 + D, and is not made before.
C7_OneDeliveryAtWindowEnd ==
    /\ \A c \in Callbacks : \A s \in Stores :
          (pc = "idle" /\ OwedBy(c, s) /\ EffectiveThrottleMs(s) # 0 /\ ~_bypassThrottle) =>
             /\ now <= since[c] + EffectiveThrottleMs(s)
             /\ MapHas(_pendingCallbacks, c)
             /\ MapGet(_pendingCallbacks, c).throttledUntil = since[c] + EffectiveThrottleMs(s)
             /\ now = since[c] + EffectiveThrottleMs(s) => _throttleData[s].set
    /\ (phase = "invoked" /\ ~_bypassThrottle) =>
          LET d == due[LastCall.callback]
          IN \A s \in Stores :
                (/\ EffectiveThrottleMs(s) # 0
                 /\ Uncut(d.trigs)
                 /\ \A j \in 1..Len(d.trigs) : d.trigs[j].store = s) =>
                   /\ now = d.since + EffectiveThrottleMs(s)
                   /\ TimesLogged(LastCall.callback) = 1
                   /\ Merged(LastCall, d.trigs)

\* C8: setThrottleStatus(false) invokes every callback whose pending entry
\* has a due-time in the future exactly once and removes the entry; a timer
\* expiring later does not invoke the callback again for those triggers.
C8_FlushDeliversOnce ==
    /\ (pc = "done" /\ op.name = "setThrottleStatus") =>
          \A c \in op.who : TimesLogged(c) = 1 /\ ~MapHas(_pendingCallbacks, c)
    /\ \A c \in Callbacks : running = c => c \notin flushed

\* a timer has expired after a flush
C8_Witness ==
    /\ pc = "done"
    /\ op.name = "timer"
    /\ flushed # {}

\* ---- C11, C16 (SpecDue) ----

\* C11: a pending entry that has received a no-key trigger and a key trigger
\* before resolution, in either order, gives one invocation, with no
\* argument and never with a key list; an entry that has received key
\* triggers only, such as a fresh one after that delivery, gives a key list.
C11_AllKeysIsSticky ==
    phase = "invoked" =>
       LET c == LastCall.callback
           d == due[c].trigs
       IN /\ (/\ Uncut(d)
              /\ \E j \in 1..Len(d) : d[j].all
              /\ \E j \in 1..Len(d) : ~d[j].all) =>
                /\ LastCall.all
                /\ LastCall.keys = <<>>
                /\ TimesLogged(c) = 1
                /\ ~Queued(c)
          /\ (d # <<>> /\ Uncut(d) /\ \A j \in 1..Len(d) : ~d[j].all) =>
                /\ ~LastCall.all
                /\ LastCall.keys # <<>>

\* a no-key trigger followed by a key trigger has been delivered
C11_Witness ==
    /\ phase = "invoked"
    /\ LET d == due[LastCall.callback].trigs
       IN /\ Len(d) = 2
          /\ d[1].all
          /\ ~d[2].all
    /\ LastCall.all

\* C16: while an entry stays in the pending table, a trigger merged into it
\* never makes its due-time later (an entry that is immediate stays
\* immediate, a due-time is only replaced by an earlier one or by
\* immediate) and never unsets its bypass flag.
C16_MergeKeepsEarliestDue ==
    [][\A c \in Callbacks :
          (MapHas(_pendingCallbacks, c) /\ MapHas(_pendingCallbacks', c)) =>
             LET m == MapGet(_pendingCallbacks, c)
                 m2 == MapGet(_pendingCallbacks', c)
             IN /\ m.throttledUntil = 0 => m2.throttledUntil = 0
                /\ (m.throttledUntil # 0 /\ m2.throttledUntil # 0) =>
                      m2.throttledUntil <= m.throttledUntil
                /\ m.bypassBlock => m2.bypassBlock]_vars

\* ---- C12, C18 (SpecFail) ----

\* C12: the block counter is never negative.
C12_BlockCounterNonNegative == _triggerBlockCount >= 0

\* C18: the reentrancy flag is set exactly while a resolver pass executes.
C18_FlagIffPassExecuting == _isTriggering <=> pc = "resolving"

\* ---- C13, C15, C19, C20 (SpecRegistry), C14 (SpecOrder) ----

\* explicit subscriptions plus auto-subscription records under key k
SubCount(byNum, autos, k) ==
    Cardinality({r \in byNum : r.key = k}) + Len(DictGetOrEmpty(autos, k))

\* the hook calls of a step that concern key k of store s
HooksFor(calls, s, k) == SelectSeq(calls, LAMBDA h : h.store = s /\ h.key = k)

\* C13: a step calls _startedTrackingKey(k) once when the number of
\* explicit plus auto subscriptions of k leaves zero, _stoppedTrackingKey(k)
\* once when it returns to zero, and no hook otherwise; no hook is ever
\* called for the all-keys sentinel.
C13_HooksFireOncePerTransition ==
    [][\A s \in Stores :
          /\ \A k \in Keys :
                LET before == SubCount(_subsByNum[s], _autoSubscriptions[s], k)
                    after == SubCount(_subsByNum'[s], _autoSubscriptions'[s], k)
                IN HooksFor(outcome'.hooks, s, k) =
                      IF before = 0 /\ after > 0 THEN <<HookCall(s, "started", k)>>
                      ELSE IF before > 0 /\ after = 0 THEN <<HookCall(s, "stopped", k)>>
                      ELSE <<>>
          /\ HooksFor(outcome'.hooks, s, Key_All) = <<>>]_vars

\* C14: a subscriber of the all-keys sentinel reached by one key-list
\* trigger is invoked with the keys of the list in the order supplied,
\* each key once.
C14_AllKeySubscriberGetsSuppliedOrder ==
    phase = "invoked" =>
       LET d == due[LastCall.callback].trigs
       IN (Len(d) = 1 /\ Uncut(d) /\ ~d[1].all /\ d[1].list # <<>>) =>
             /\ ~LastCall.all
             /\ LastCall.keys = Uniq(d[1].list)

\* C15: a token returned by subscribe is greater than every token the store
\* returned before; no two live subscriptions share a token; a token retired
\* by unsubscribe is never live again.
C15_TokensNeverReused ==
    [][\A s \in Stores :
          /\ \A r \in _subsByNum'[s] \ _subsByNum[s] :
                \A t \in issued[s].returned : r.token > t
          /\ \A r \in _subsByNum'[s] : r.token \notin issued'[s].retired
          /\ \A r1, r2 \in _subsByNum'[s] : r1.token = r2.token => r1 = r2]_vars

\* a subscription is live whose token was returned after another was retired
C15_Witness ==
    \E s \in Stores :
       /\ issued[s].retired # {}
       /\ \E r \in _subsByNum[s] : \A t \in issued[s].retired : r.token > t

\* this._subscriptions[key] || this._autoSubscriptions[key], by truthiness
_isTrackingKey(s, key) ==
    DictHas(_subscriptions[s], key) \/ DictHas(_autoSubscriptions[s], key)

\* union(Object.keys(this._subscriptions), Object.keys(this._autoSubscriptions))
_getSubscriptionKeys(s) ==
    Uniq(ObjectKeys(_subscriptions[s]) \o ObjectKeys(_autoSubscriptions[s]))

\* C19: neither registry maps a key to an empty list, so a key is tracked
\* exactly when an explicit or auto subscription exists for it, and exactly
\* when it is among the subscription keys.
C19_NoEmptyListInRegistries ==
    \A s \in Stores :
       /\ \A i \in 1..Len(_subscriptions[s]) : _subscriptions[s][i].val # <<>>
       /\ \A i \in 1..Len(_autoSubscriptions[s]) : _autoSubscriptions[s][i].val # <<>>
       /\ \A k \in SubKeys :
             /\ _isTrackingKey(s, k) <=> SubCount(_subsByNum[s], _autoSubscriptions[s], k) > 0
             /\ _isTrackingKey(s, k) <=> k \in Range(_getSubscriptionKeys(s))

\* C20: the live tokens of a store are those it returned and has not
\* retired; unsubscribe with any other token fails with UnknownToken, and
\* the step leaves the registries, the token table and the pending table as
\* they were and calls no tracking hook.
C20_UnknownTokenChangesNothing ==
    [][/\ \A s \in Stores :
             {r.token : r \in _subsByNum'[s]} = issued'[s].returned \ issued'[s].retired
       /\ outcome'.error = "UnknownToken" =>
             /\ outcome'.hooks = <<>>
             /\ UNCHANGED <<regVars, _pendingCallbacks>>]_vars

\* unsubscribe has failed on a retired token while a delivery was pending
C20_Witness ==
    /\ outcome.error = "UnknownToken"
    /\ _pendingCallbacks # <<>>
    /\ \E s \in Stores : issued[s].retired # {} /\ _subsByNum[s] # {}

\* ---- C17 (SpecTimer) ----

\* C17: a pending entry with a due-time is eventually delivered: it does not
\* stay in the pending table forever.
C17_ThrottledDeliveryHappens ==
    \A c \in Callbacks :
       (MapHas(_pendingCallbacks, c) /\ MapGet(_pendingCallbacks, c).throttledUntil # 0)
          ~> ~MapHas(_pendingCallbacks, c)

\* ---- C21 (SpecThrottle) ----

\* C21: while the throttle-bypass flag is set, with the block counter at
\* zero and no pass executing, a trigger has invoked every callback it
\* reached by the time it returns: when the thread is idle again, no
\* callback is owed a delivery.
C21_BypassedThrottleDeliversAtOnce ==
    (pc = "idle" /\ _bypassThrottle /\ _triggerBlockCount = 0 /\ ~_isTriggering) =>
       \A c \in Callbacks : ~(hist[c] # <<>> /\ Uncut(hist[c]))

\* this step is a trigger that reaches c and runs no pass
QueuesOnly(c) == Len(hist'[c]) > Len(hist[c])

\* C21, amended: while the throttle-bypass flag is set, a trigger of a store
\* with a delay that does not bypass blocks runs no pass: it queues the
\* callbacks it reaches and returns with none of them invoked. The first
\* pass that starts afterwards with the flag set and the block counter at
\* zero collects every entry of the table, whatever its due-time.
C21_BypassedTriggerWaitsForAPass ==
    /\ [](_bypassThrottle =>
             ~(/\ op.name = "trigger"
               /\ EffectiveThrottleMs(op.store) # 0
               /\ ~BypassTriggerBlocks(op.store)))
    /\ [][\A c \in Callbacks :
             (pc = "idle" /\ _bypassThrottle /\ QueuesOnly(c)) =>
                /\ pc' = "idle"
                /\ log' = log
                /\ MapHas(_pendingCallbacks', c)]_vars
    /\ [][(pc = "idle" /\ pc' = "resolving" /\ _bypassThrottle'
              /\ _triggerBlockCount' = 0) =>
             /\ _pendingCallbacks' = <<>>
             /\ \A c \in Callbacks : MapHas(_pendingCallbacks, c) => Queued(c)']_vars

\* with the flag set, a timer's pass has invoked a callback before the
\* due-time of its entry
C21_Witness ==
    /\ phase = "invoked"
    /\ _bypassThrottle
    /\ op.name = "timer"
    /\ LET d == due[LastCall.callback]
       IN /\ d.trigs # <<>>
          /\ d.since + EffectiveThrottleMs(op.store) > now

\* ---- C22 (SpecBlock) ----

\* this step is a trigger of a block-bypassing store that reaches c
BypassTriggerReaches(c) ==
    /\ op' # op
    /\ op'.name = "trigger"
    /\ BypassTriggerBlocks(op'.store)
    /\ c \in op'.who

\* this step removes a subscription of c
Unsubscribes(c) ==
    \E s \in Stores : \E r \in _subsByNum[s] \ _subsByNum'[s] : r.callback = c

====
